---------------------------- MODULE Spec2Model ----------------------------
(***************************************************************************)
(* A model of src/irc.py: the IRC client (IRC_Client), the bot's dispatch  *)
(* loop (Bot.run), the message parser (IRC_Message) and the socket reader  *)
(* (_read_buffer).                                                         *)
(*                                                                         *)
(* A Python str (and a bytes value: the model's text is ASCII, for which   *)
(* UTF-8 encoding and decoding map each byte to the same character) is a   *)
(* sequence of one-character strings.  An Optional value is a record       *)
(* [present, v]; None is the record with present = FALSE.                  *)
(***************************************************************************)
EXTENDS Naturals, Sequences, FiniteSets

VARIABLES
    functions,    \* Bot.functions: the ordered (name, handler) registrations
    on_privmsg,   \* Bot.on_privmsg: the generic handlers
    wire,         \* bytes the peer has sent that have not yet arrived
    rx,           \* bytes in the socket's receive buffer, not yet recv()ed
    closed,       \* the peer has closed the connection
    buf,          \* _read_buffer's accumulation buffer (None after end-of-stream)
    lines,        \* read()'s local list of lines of the latest read
    messages,     \* IRC_Client.messages
    i,            \* position of Bot.run's for loop in messages (1-based)
    pc,           \* "idle" | "reading" | "dispatch" | "crashed"
    exc,          \* the exception that left run(), "" when none
    sent,         \* every string handed to socket.send, in order
    runLog,       \* history: one entry per message dispatched by this run():
                  \* the message, its reply target, the number of strings
                  \* sent before it, the handlers invoked, the strings sent
                  \* and the exception that ended the run ("" when none)
    got,          \* history: the lines of all reads so far, in order
    firstLen,     \* history: length of the first chunk of the latest read
    src,          \* history: what the peer sent, [lines, tail]
    connected,    \* connect() has been called: self.__socket exists
    toRegister,   \* the number of register() calls the caller still makes
    sndRoom,      \* the transport's limit on one socket.send call,
                  \* [limited, n]: at most n bytes are taken when limited
    tx,           \* the bytes the transport has taken from socket.send
    zeroRecvs     \* history: the recv calls of the latest read's while
                  \* loop that returned no byte

vars == <<functions, on_privmsg, wire, rx, closed, buf, lines, messages, i,
          pc, exc, sent, runLog, got, firstLen, src, connected, toRegister,
          sndRoom, tx, zeroRecvs>>

(***************************************************************************)
(* Python values                                                           *)
(***************************************************************************)
None == [present |-> FALSE, v |-> <<>>]
Some(s) == [present |-> TRUE, v |-> s]

\* f'{x}' of an Optional[str]: the text, or "None"
Fmt(o) == IF o.present THEN o.v ELSE <<"N", "o", "n", "e">>

CR == "\r"
LF == "\n"
CRLF == <<CR, LF>>

Min(a, b) == IF a < b THEN a ELSE b

\* s[1:]
Drop1(s) == IF s = <<>> THEN <<>> ELSE Tail(s)

\* c in s
Contains(s, c) == \E k \in 1..Len(s) : s[k] = c

\* the first position of c in s (s contains c)
FirstPos(s, c) == CHOOSE k \in 1..Len(s) : s[k] = c /\ \A j \in 1..(k-1) : s[j] # c

\* s.split(c) for a one-character separator c
RECURSIVE Split(_, _)
Split(s, c) ==
    IF ~Contains(s, c) THEN <<s>>
    ELSE LET k == FirstPos(s, c)
         IN  <<SubSeq(s, 1, k - 1)>> \o Split(SubSeq(s, k + 1, Len(s)), c)

\* c.join(ws)
RECURSIVE Join(_, _)
Join(ws, c) ==
    IF ws = <<>> THEN <<>>
    ELSE IF Len(ws) = 1 THEN ws[1]
    ELSE ws[1] \o <<c>> \o Join(Tail(ws), c)

\* w.index(x): the first position of x in the list w (1-based; w contains x)
Index(w, x) == CHOOSE k \in 1..Len(w) : w[k] = x /\ \A j \in 1..(k-1) : w[j] # x

\* s.split('\r\n')
HasCRLF(s) == \E k \in 1..(Len(s) - 1) : s[k] = CR /\ s[k+1] = LF
FirstCRLF(s) ==
    CHOOSE k \in 1..(Len(s) - 1) :
        /\ s[k] = CR /\ s[k+1] = LF
        /\ \A j \in 1..(k-1) : ~(s[j] = CR /\ s[j+1] = LF)
RECURSIVE SplitCRLF(_)
SplitCRLF(s) ==
    IF ~HasCRLF(s) THEN <<s>>
    ELSE LET k == FirstCRLF(s)
         IN  <<SubSeq(s, 1, k - 1)>> \o SplitCRLF(SubSeq(s, k + 2, Len(s)))

\* xs[:-1]
DropLast(xs) == IF xs = <<>> THEN <<>> ELSE SubSeq(xs, 1, Len(xs) - 1)

(***************************************************************************)
(* IRC_Message                                                             *)
(***************************************************************************)
\* one token is taken for a command
HasCommand_AnyToken(w) == Len(w) > 0

\* the test that guards the assignment of prefix and command: len(w) > 1
HasCommand(w) == Len(w) > 1

\* IRC_Message.__init__(s).  raised = TRUE: the constructor raised and no
\* message exists: IndexError at w[0][0] when the first token is empty (or
\* ValueError at the unpacking of w[:2] when it holds one token only).
IRC_Message(s) ==
    LET w == Split(s, " ")
        bad == HasCommand(w) /\ (w[1] = <<>> \/ (w[1][1] = ":" /\ Len(w) < 2))
        hasPrefix == HasCommand(w) /\ ~bad /\ w[1][1] = ":"
        prefix == IF hasPrefix THEN Some(w[1]) ELSE None
        command == IF HasCommand(w) /\ ~bad
                   THEN (IF hasPrefix THEN Some(w[2]) ELSE Some(w[1]))
                   ELSE None
        nickname == IF prefix.present /\ Contains(prefix.v, "!")
                    THEN Some(Drop1(Split(prefix.v, "!")[1]))
                    ELSE None
        middle == IF command.present /\ Len(w) > Index(w, command.v)
                  THEN Some(w[Index(w, command.v) + 1])
                  ELSE None
        trailing == IF middle.present /\ Len(w) > Index(w, middle.v)
                    THEN Some(Join(SubSeq(w, Index(w, middle.v) + 1, Len(w)), " "))
                    ELSE None
        message == IF trailing.present THEN Some(Drop1(trailing.v)) ELSE None
    IN  IF bad
        THEN [raised |-> TRUE, prefix |-> None, nickname |-> None,
              command |-> None, middle |-> None, trailing |-> None,
              message |-> None]
        ELSE [raised |-> FALSE, prefix |-> prefix, nickname |-> nickname,
              command |-> command, middle |-> middle, trailing |-> trailing,
              message |-> message]

\* __str__'s loop body: if w is not None: s += w + " "
StrAdd(s, w) == IF w.present THEN s \o w.v \o <<" ">> ELSE s

\* IRC_Message.__str__: the loop, then return s[:-1]
IRC_Message_str(m) ==
    DropLast(StrAdd(StrAdd(StrAdd(StrAdd(<<>>, m.prefix), m.command),
                           m.middle), m.trailing))

\* _parse_irc_messages(messages): the list of parsed lines
parse_irc_messages(ls) == [k \in 1..Len(ls) |-> IRC_Message(ls[k])]


(***************************************************************************)
(* Configuration and handlers                                              *)
(***************************************************************************)
\* Bot.__init__: bang = '!' (the default), channel = "#c"
Bang == "!"
Channel == <<"#", "c">>

\* recv's bufsize argument
RecvSize == 1024

\* The handler functions the bot is built with.  A BotFunction returns a
\* str, returns None, or raises; here h1 returns "ok", h2 raises an
\* exception whose repr is "E()", h3 returns None.
Handlers == {"h1", "h2", "h3"}
Outcome(h) ==
    CASE h = "h1" -> [kind |-> "return", v |-> <<"o", "k">>]
      [] h = "h2" -> [kind |-> "raise", v |-> <<"E", "(", ")">>]
      [] OTHER    -> [kind |-> "none", v |-> <<>>]

\* the handler's exception is not caught and leaves the call
TryCall_NoCatch(h) ==
    LET o == Outcome(h)
    IN  IF o.kind = "raise" THEN [r |-> None, exc |-> "Exception"]
        ELSE [r |-> IF o.kind = "none" THEN None ELSE Some(o.v), exc |-> ""]

\* try: r = f(self, msg) / except Exception as e: r = repr(e)
\* r is the handler's result or the repr of what it raised; exc is the
\* exception that escapes the try statement (none does).
TryCall(h) ==
    LET o == Outcome(h)
    IN  [r |-> IF o.kind = "none" THEN None ELSE Some(o.v), exc |-> ""]

(***************************************************************************)
(* IRC_Client: the formatting helpers (the string each hands to send)      *)
(***************************************************************************)
W_PONG == <<"P", "O", "N", "G">>
W_PING == <<"P", "I", "N", "G">>
W_JOIN == <<"J", "O", "I", "N">>
W_PRIVMSG == <<"P", "R", "I", "V", "M", "S", "G">>
W_001 == <<"0", "0", "1">>
W_NICK == <<"N", "I", "C", "K">>
W_USER == <<"U", "S", "E", "R">>

\* the line terminator is forgotten
pong_NoCRLF(s) == W_PONG \o <<" ">> \o Fmt(s)

\* pong(s): s is msg.middle, a str or None
pong(s) == W_PONG \o <<" ">> \o Fmt(s) \o CRLF

\* privmsg(channel, message): channel is respond_to, a str or None
privmsg(channel, message) ==
    W_PRIVMSG \o <<" ">> \o Fmt(channel) \o <<" ">> \o message \o CRLF

\* join(channel)
join(channel) == W_JOIN \o <<" ">> \o channel \o CRLF

\* nick(nickname)
nick(nickname) == W_NICK \o <<" ">> \o nickname \o CRLF

\* user(username, mode, fullname): the string carries no line terminator
user(username, mode, fullname) ==
    W_USER \o <<" ">> \o username \o <<" ">> \o mode \o <<" ", "*", " ", ":">> \o fullname

\* Bot.__init__: username and fullname default to the nickname, mode to 0
Nickname == <<"n">>
Username == Nickname
Mode == <<"0">>
Fullname == Nickname

\* register(): the strings handed to send, in order
register == <<nick(Nickname), user(Username, Mode, Fullname)>>

\* send(s): the one call self.__socket.send(s.encode('utf-8')), whose
\* return value is dropped.  The bytes the transport takes of s when one
\* call takes at most room.n bytes.
send(room, s) == IF room.limited THEN SubSeq(s, 1, Min(Len(s), room.n)) ELSE s

\* the bytes the transport takes of the strings ss, each sent by one send
RECURSIVE SendEach(_, _)
SendEach(room, ss) ==
    IF ss = <<>> THEN <<>> ELSE send(room, ss[1]) \o SendEach(room, Tail(ss))

(***************************************************************************)
(* Bot: dispatch of one message                                            *)
(***************************************************************************)
\* What a call of __call_function or __call_on_privmsg did: the handlers
\* invoked (kind "bang" or "generic", pos its position in its list), the
\* strings sent and the exception that escaped ("" when none).
NoEffect == [called |-> <<>>, sends |-> <<>>, exc |-> ""]

\* if r is not None: self.privmsg(respond_to, r)
Reply(r, to) == IF r.present THEN <<privmsg(to, r.v)>> ELSE <<>>

\* msg.message.split(' ')[0][1:]
TriggerWord(body) == Drop1(Split(body, " ")[1])

\* the for loop of __call_function from registration k on: it returns at
\* the first registration whose name is not the trigger word, and goes on
\* to the next registration after a call
RECURSIVE BangLoop(_, _, _, _)
BangLoop(fs, body, to, k) ==
    IF k > Len(fs) THEN NoEffect
    ELSE IF TriggerWord(body) # fs[k].name THEN NoEffect
    ELSE LET t == TryCall(fs[k].h)
             call == <<[kind |-> "bang", pos |-> k, h |-> fs[k].h]>>
             rest == BangLoop(fs, body, to, k + 1)
         IN  IF t.exc # ""
             THEN [called |-> call, sends |-> <<>>, exc |-> t.exc]
             ELSE [called |-> call \o rest.called,
                   sends  |-> Reply(t.r, to) \o rest.sends,
                   exc    |-> rest.exc]

\* __call_function(msg, respond_to)
call_function(fs, msg, to) ==
    IF ~msg.message.present THEN [NoEffect EXCEPT !.exc = "TypeError"]
    ELSE IF msg.message.v = <<>> THEN [NoEffect EXCEPT !.exc = "IndexError"]
    ELSE IF msg.message.v[1] # Bang THEN NoEffect
    ELSE BangLoop(fs, msg.message.v, to, 1)

\* the for loop of __call_on_privmsg from handler k on
RECURSIVE GenericLoop(_, _, _)
GenericLoop(hs, to, k) ==
    IF k > Len(hs) THEN NoEffect
    ELSE LET t == TryCall(hs[k])
             call == <<[kind |-> "generic", pos |-> k, h |-> hs[k]]>>
             rest == GenericLoop(hs, to, k + 1)
         IN  IF t.exc # ""
             THEN [called |-> call, sends |-> <<>>, exc |-> t.exc]
             ELSE [called |-> call \o rest.called,
                   sends  |-> Reply(t.r, to) \o rest.sends,
                   exc    |-> rest.exc]

\* __call_on_privmsg(msg, respond_to)
call_on_privmsg(hs, msg, to) == GenericLoop(hs, to, 1)

\* respond_to = msg.middle if msg.middle[0] == "#" else msg.nickname
respond_to(msg) == IF msg.middle.v[1] = "#" THEN msg.middle ELSE msg.nickname

\* case 'PRIVMSG' of Bot.run: msg.middle[0] raises when middle is None or ""
OnPrivmsg(fs, hs, msg) ==
    IF ~msg.middle.present THEN [NoEffect EXCEPT !.exc = "TypeError"]
    ELSE IF msg.middle.v = <<>> THEN [NoEffect EXCEPT !.exc = "IndexError"]
    ELSE LET to == respond_to(msg)
             a  == call_function(fs, msg, to)
             b  == call_on_privmsg(hs, msg, to)
         IN  IF a.exc # "" THEN a
             ELSE [called |-> a.called \o b.called,
                   sends  |-> a.sends \o b.sends,
                   exc    |-> b.exc]

\* the welcome is answered by a JOIN of the message's middle parameter
RunOne_JoinMiddle(fs, hs, msg) ==
    IF msg.command = Some(W_PING) THEN [NoEffect EXCEPT !.sends = <<pong(msg.middle)>>]
    ELSE IF msg.command = Some(W_001) THEN [NoEffect EXCEPT !.sends = <<join(Fmt(msg.middle))>>]
    ELSE IF msg.command = Some(W_PRIVMSG) THEN OnPrivmsg(fs, hs, msg)
    ELSE NoEffect

\* the body of Bot.run's for loop: match msg.command
RunOne(fs, hs, msg) ==
    IF msg.command = Some(W_PING) THEN [NoEffect EXCEPT !.sends = <<pong(msg.middle)>>]
    ELSE IF msg.command = Some(W_001) THEN [NoEffect EXCEPT !.sends = <<join(Channel)>>]
    ELSE IF msg.command = Some(W_PRIVMSG) THEN OnPrivmsg(fs, hs, msg)
    ELSE NoEffect

\* for the history: respond_to as Bot.run computed it (None when it did not)
RespondTo(msg) ==
    IF msg.command = Some(W_PRIVMSG) /\ msg.middle.present /\ msg.middle.v # <<>>
    THEN respond_to(msg)
    ELSE None

(***************************************************************************)
(* IRC_Client.read and Bot.run                                             *)
(***************************************************************************)
\* the rounds of _read_buffer's loop followed after the peer has closed
MaxZeroRecvs == 2

\* sock.recv(1024): the bytes returned, given the receive buffer
RecvChunk(r) == SubSeq(r, 1, Min(Len(r), RecvSize))
RecvRest(r) == SubSeq(r, Min(Len(r), RecvSize) + 1, Len(r))

\* _read_buffer's test after the first recv: len(buf) < 1
AtEof(b) == Len(b) < 1

\* the loop also stops at a carriage return
BufferComplete_AnyLineEnd(b) == b[Len(b)] = LF \/ b[Len(b)] = CR

\* _read_buffer's loop test, negated: buf[-1] == b'\n'[0]
BufferComplete(b) == b[Len(b)] = LF

\* end-of-stream is returned as an empty buffer
EofResult_Empty == Some(<<>>)

\* what _read_buffer returns at end-of-stream
EofResult == None

\* read(): lines = buf.split('\r\n')[:-1]
SplitLines(b) == DropLast(SplitCRLF(b))

\* the element of buf.split('\r\n') that [:-1] leaves out
Discarded(b) == SplitCRLF(b)[Len(SplitCRLF(b))]

\* read() once _read_buffer has returned the text b, and then the start of
\* Bot.run's for loop.  An exception of the parser leaves read() and run().
ReadDone(b) ==
    LET ls == SplitLines(b)
        ms == parse_irc_messages(ls)
    IN  /\ buf' = Some(b)
        /\ lines' = ls
        /\ got' = got \o ls
        /\ IF \E k \in 1..Len(ms) : ms[k].raised
           THEN /\ pc' = "crashed"
                /\ exc' = "IndexError"
                /\ UNCHANGED <<messages, i>>
           ELSE /\ messages' = ms
                /\ i' = 1
                /\ pc' = IF ms = <<>> THEN "idle" ELSE "dispatch"
                /\ exc' = ""

\* read() once _read_buffer has returned b, a str or None
AfterReadBuffer(b) ==
    IF ~b.present
    THEN /\ buf' = b
         /\ lines' = <<>>
         /\ messages' = <<>>
         /\ i' = 1
         /\ pc' = "idle"
         /\ UNCHANGED <<exc, got>>
    ELSE ReadDone(b.v)

\* run() is called: read() calls _read_buffer, which does its first recv.
\* recv blocks while nothing has arrived and the peer has not closed.
RunStart ==
    /\ pc = "idle"
    /\ connected
    /\ rx # <<>> \/ closed
    /\ LET chunk == RecvChunk(rx)
       IN  /\ rx' = RecvRest(rx)
           /\ firstLen' = Len(chunk)
           /\ runLog' = <<>>
           /\ zeroRecvs' = 0
           /\ IF AtEof(chunk)
              THEN AfterReadBuffer(EofResult)
              ELSE IF BufferComplete(chunk)
              THEN AfterReadBuffer(Some(chunk))
              ELSE /\ buf' = Some(chunk)
                   /\ pc' = "reading"
                   /\ UNCHANGED <<lines, messages, i, exc, got>>
    /\ UNCHANGED <<functions, on_privmsg, wire, closed, sent, src, connected,
                   toRegister, sndRoom, tx>>

\* one more recv of _read_buffer's while loop.  Once the peer has closed
\* and nothing is left to receive, recv returns no byte: the buffer stays
\* as it is and the loop goes round again, any number of times (the model
\* follows it for MaxZeroRecvs rounds).
RecvMore ==
    /\ pc = "reading"
    /\ rx # <<>> \/ (closed /\ zeroRecvs < MaxZeroRecvs)
    /\ LET b == buf.v \o RecvChunk(rx)
       IN  /\ rx' = RecvRest(rx)
           /\ zeroRecvs' = IF RecvChunk(rx) = <<>> THEN zeroRecvs + 1 ELSE zeroRecvs
           /\ IF BufferComplete(b)
              THEN AfterReadBuffer(Some(b))
              ELSE /\ buf' = Some(b)
                   /\ UNCHANGED <<lines, messages, i, pc, exc, got>>
    /\ UNCHANGED <<functions, on_privmsg, wire, closed, sent, runLog,
                   firstLen, src, connected, toRegister, sndRoom, tx>>

\* one iteration of Bot.run's for loop
Dispatch ==
    /\ pc = "dispatch"
    /\ LET msg == messages[i]
           e == RunOne(functions, on_privmsg, msg)
       IN  /\ sent' = sent \o e.sends
           /\ tx' = tx \o SendEach(sndRoom, e.sends)
           /\ runLog' = Append(runLog, [msg |-> msg, to |-> RespondTo(msg),
                                        at |-> Len(sent),
                                        called |-> e.called, sends |-> e.sends,
                                        exc |-> e.exc])
           /\ IF e.exc # ""
              THEN /\ pc' = "crashed"
                   /\ exc' = e.exc
                   /\ i' = i
              ELSE /\ pc' = IF i = Len(messages) THEN "idle" ELSE "dispatch"
                   /\ i' = i + 1
                   /\ exc' = ""
    /\ UNCHANGED <<functions, on_privmsg, wire, rx, closed, buf, lines,
                   messages, got, firstLen, src, connected, toRegister,
                   sndRoom, zeroRecvs>>

\* run() is called before connect(): read() finds no self.__socket
RunUnconnected ==
    /\ pc = "idle"
    /\ ~connected
    /\ pc' = "crashed"
    /\ exc' = "AttributeError"
    /\ UNCHANGED <<functions, on_privmsg, wire, rx, closed, buf, lines,
                   messages, i, sent, runLog, got, firstLen, src, connected,
                   toRegister, sndRoom, tx, zeroRecvs>>

(***************************************************************************)
(* The caller's other calls: connect() and register()                      *)
(***************************************************************************)
\* connect(): the socket is created and connected
Connect ==
    /\ pc = "idle"
    /\ ~connected
    /\ connected' = TRUE
    /\ UNCHANGED <<functions, on_privmsg, wire, rx, closed, buf, lines,
                   messages, i, pc, exc, sent, runLog, got, firstLen, src,
                   toRegister, sndRoom, tx, zeroRecvs>>

\* register(): nick() then user(); before connect() the first send finds
\* no self.__socket
Register ==
    /\ pc = "idle"
    /\ toRegister > 0
    /\ toRegister' = toRegister - 1
    /\ IF connected
       THEN /\ sent' = sent \o register
            /\ tx' = tx \o SendEach(sndRoom, register)
            /\ UNCHANGED <<pc, exc>>
       ELSE /\ pc' = "crashed"
            /\ exc' = "AttributeError"
            /\ UNCHANGED <<sent, tx>>
    /\ UNCHANGED <<functions, on_privmsg, wire, rx, closed, buf, lines,
                   messages, i, runLog, got, firstLen, src, connected,
                   sndRoom, zeroRecvs>>

(***************************************************************************)
(* The transport                                                           *)
(***************************************************************************)
\* some of the bytes in flight arrive in the socket's receive buffer
Deliver ==
    /\ connected
    /\ wire # <<>>
    /\ \E n \in 1..Len(wire) :
          /\ rx' = rx \o SubSeq(wire, 1, n)
          /\ wire' = SubSeq(wire, n + 1, Len(wire))
    /\ UNCHANGED <<functions, on_privmsg, closed, buf, lines, messages, i, pc,
                   exc, sent, runLog, got, firstLen, src, connected,
                   toRegister, sndRoom, tx, zeroRecvs>>

\* the peer closes the connection after its last byte
PeerClose ==
    /\ connected
    /\ wire = <<>>
    /\ ~closed
    /\ closed' = TRUE
    /\ UNCHANGED <<functions, on_privmsg, wire, rx, buf, lines, messages, i,
                   pc, exc, sent, runLog, got, firstLen, src, connected,
                   toRegister, sndRoom, tx, zeroRecvs>>

(***************************************************************************)
(* Inputs                                                                  *)
(***************************************************************************)
MaxFuncs == 2
MaxGeneric == 2
MaxLoopLines == 2
MaxStreamLines == 2
MaxLineLen == 4
MaxWelcomes == 2
MaxRegisters == 1
MaxRoom == 3

SeqsUpTo(S, n) == UNION {[1..k -> S] : k \in 0..n}

W_foo == <<"f", "o", "o">>
W_bar == <<"b", "a", "r">>
Registrations == {[name |-> n, h |-> h] : n \in {W_foo, W_bar}, h \in Handlers}

P_nick == <<":", "n", "!", "u">>
Sp == <<" ">>
PrivmsgTo(target) == P_nick \o Sp \o W_PRIVMSG \o Sp \o target
L_bangbar   == PrivmsgTo(<<"#", "c">>) \o Sp \o <<":", "!", "b", "a", "r", " ", "x">>
L_bangfoo   == PrivmsgTo(<<"#", "c">>) \o Sp \o <<":", "!", "f", "o", "o">>
L_bangfoo_q == PrivmsgTo(<<"m">>) \o Sp \o <<":", "!", "f", "o", "o">>
L_bangonly  == PrivmsgTo(<<"#", "c">>) \o Sp \o <<":", "!">>
L_hi        == PrivmsgTo(<<"#", "c">>) \o Sp \o <<":", "h", "i">>
L_noprefix  == W_PRIVMSG \o Sp \o <<"m">> \o Sp \o <<":", "h", "i">>
L_nobody    == PrivmsgTo(<<"#", "c">>)
L_emptybody == PrivmsgTo(<<"#", "c">>) \o Sp \o <<":">>
L_nomiddle  == P_nick \o Sp \o W_PRIVMSG
L_emptymid  == PrivmsgTo(<<>>) \o Sp \o <<":", "x">>
L_ping      == W_PING \o Sp \o <<":", "a", "b", "c">>
L_pingbare  == <<":", "s">> \o Sp \o W_PING
L_welcome   == <<":", "s">> \o Sp \o W_001 \o Sp \o <<"n">> \o Sp \o <<":", "w">>
L_noop      == <<"N", "O", "O", "P">>
L_leadspace == Sp \o W_PING \o Sp \o <<"x">>
L_example   == W_PRIVMSG \o Sp \o <<"#", "a">> \o Sp \o <<":", "h", "i">>
L_pingping  == W_PING \o Sp \o W_PING \o Sp \o <<"x">>
L_colons    == <<":", "a", " ", ":", "a", " ", "b", " ", "c">>
L_privpriv  == W_PRIVMSG \o Sp \o W_PRIVMSG

DispatchLines ==
    {L_bangbar, L_bangfoo, L_bangfoo_q, L_bangonly, L_hi, L_noprefix,
     L_nobody, L_emptybody, L_nomiddle, L_emptymid, L_ping, L_pingbare,
     L_welcome, L_noop, L_leadspace}
LoopLines ==
    {L_bangbar, L_hi, L_nobody, L_emptybody, L_ping, L_welcome, L_noop,
     L_leadspace}
RepeatLines == {L_pingping, L_colons, L_privpriv}
StreamLines == {<<>>, <<"a">>, <<"a", " ", "b">>}
ParseAlphabet == {":", "!", " ", "a"}

\* the bytes of a sequence of [line, term] followed by an unterminated tail
RECURSIVE Encode(_)
Encode(ls) == IF ls = <<>> THEN <<>> ELSE ls[1].line \o ls[1].term \o Encode(Tail(ls))
WithCRLF(ls) == [k \in 1..Len(ls) |-> [line |-> ls[k], term |-> CRLF]]

\* the transport takes every byte of a send
Unlimited == [limited |-> FALSE, n |-> 0]

\* the state after Bot.__init__: the connection made or not (c), the
\* register() calls the caller still makes (r), the transport's limit (room)
StartWith(fs, hs, inflight, arrived, s, c, r, room) ==
    /\ functions = fs
    /\ on_privmsg = hs
    /\ wire = inflight
    /\ rx = arrived
    /\ closed = FALSE
    /\ buf = Some(<<>>)
    /\ lines = <<>>
    /\ messages = <<>>
    /\ i = 1
    /\ pc = "idle"
    /\ exc = ""
    /\ sent = <<>>
    /\ runLog = <<>>
    /\ got = <<>>
    /\ firstLen = 1
    /\ src = s
    /\ connected = c
    /\ toRegister = r
    /\ sndRoom = room
    /\ tx = <<>>
    /\ zeroRecvs = 0

\* the state after Bot.__init__ and connect, before the first run(), of a
\* caller that does not register and a transport that takes every byte
Start(fs, hs, inflight, arrived, s) ==
    StartWith(fs, hs, inflight, arrived, s, TRUE, 0, Unlimited)

\* one line, already arrived, every configuration
InitDispatch ==
    \E fs \in SeqsUpTo(Registrations, MaxFuncs), hs \in SeqsUpTo(Handlers, MaxGeneric),
       l \in DispatchLines :
        LET s == [lines |-> WithCRLF(<<l>>), tail |-> <<>>]
        IN  Start(fs, hs, <<>>, Encode(s.lines), s)

\* several lines arrived together, at most one handler of each kind
InitLoop ==
    \E fs \in SeqsUpTo(Registrations, 1), hs \in SeqsUpTo(Handlers, 1),
       ls \in SeqsUpTo(LoopLines, MaxLoopLines) :
        LET s == [lines |-> WithCRLF(ls), tail |-> <<>>]
        IN  /\ Len(ls) >= 2
            /\ Start(fs, hs, <<>>, Encode(s.lines), s)

\* short lines still in flight, ended by CRLF or by a bare LF, and possibly
\* followed by the start of a line the peer never finishes
InitStream ==
    \E ls \in SeqsUpTo([line : StreamLines, term : {CRLF, <<LF>>}], MaxStreamLines),
       t \in {<<>>, <<"a">>} :
        LET s == [lines |-> ls, tail |-> t]
        IN  Start(<<>>, <<"h1">>, Encode(ls) \o t, <<>>, s)

\* the example of a line cut between its CR and its LF
InitExample ==
    \E l \in {L_example, L_ping} :
        LET s == [lines |-> WithCRLF(<<l>>), tail |-> <<>>]
        IN  Start(<<>>, <<"h1">>, Encode(s.lines), <<>>, s)

\* every line over ParseAlphabet of at most MaxLineLen characters
InitParse ==
    \E l \in SeqsUpTo(ParseAlphabet, MaxLineLen) :
        LET s == [lines |-> WithCRLF(<<l>>), tail |-> <<>>]
        IN  Start(<<>>, <<>>, <<>>, Encode(s.lines), s)

\* the state after Bot.__init__, before connect(): the caller goes on to
\* call connect, register (up to MaxRegisters times) and run in any order,
\* and the peer sends welcomes once the connection stands
InitSession ==
    \E ls \in SeqsUpTo({L_welcome}, MaxWelcomes), r \in 0..MaxRegisters :
        LET s == [lines |-> WithCRLF(ls), tail |-> <<>>]
        IN  /\ Len(ls) >= 1
            /\ StartWith(<<>>, <<>>, Encode(s.lines), <<>>, s, FALSE, r, Unlimited)

\* a connected client whose transport takes at most n bytes of one send
InitPartial ==
    \E l \in {L_ping, L_welcome, L_hi}, n \in 1..MaxRoom, r \in 0..MaxRegisters :
        LET s == [lines |-> WithCRLF(<<l>>), tail |-> <<>>]
        IN  StartWith(<<>>, <<"h1">>, <<>>, Encode(s.lines), s, TRUE, r,
                      [limited |-> TRUE, n |-> n])

\* the lines in which the text of a token occurs twice
InitRepeat ==
    \E l \in RepeatLines, hs \in SeqsUpTo(Handlers, 1) :
        LET s == [lines |-> WithCRLF(<<l>>), tail |-> <<>>]
        IN  Start(<<>>, hs, <<>>, Encode(s.lines), s)

Init ==
    \/ InitDispatch \/ InitLoop \/ InitStream \/ InitExample \/ InitParse
    \/ InitSession \/ InitPartial \/ InitRepeat

Next ==
    \/ RunStart \/ RecvMore \/ Dispatch \/ Deliver \/ PeerClose
    \/ RunUnconnected \/ Connect \/ Register

Spec == Init /\ [][Next]_vars

(***************************************************************************)
(* Properties                                                              *)
(***************************************************************************)
Entries == {runLog[k] : k \in 1..Len(runLog)}

\* the message is a PRIVMSG whose messageBody starts with the trigger character
IsBangCommand(m) ==
    /\ m.command = Some(W_PRIVMSG)
    /\ m.message.present
    /\ m.message.v # <<>>
    /\ m.message.v[1] = Bang

\* the text after the trigger character up to the next space
WordOf(body) ==
    LET t == Tail(body)
    IN  IF \E k \in 1..Len(t) : t[k] = " "
        THEN SubSeq(t, 1, (CHOOSE k \in 1..Len(t) :
                              t[k] = " " /\ \A j \in 1..(k-1) : t[j] # " ") - 1)
        ELSE t

\* the positions of the registrations that carry the name n
Matching(n) == {p \in 1..Len(functions) : functions[p].name = n}
FirstMatching(n) == CHOOSE p \in Matching(n) : \A q \in Matching(n) : p <= q

BangCalls(e) == SelectSeq(e.called, LAMBDA c : c.kind = "bang")
GenericCalls(e) == SelectSeq(e.called, LAMBDA c : c.kind = "generic")

\* what a handler's invocation must produce on the wire, given the reply target
ExpectedReply(h, to) ==
    IF Outcome(h).kind = "none" THEN <<>>
    ELSE <<W_PRIVMSG \o <<" ">> \o Fmt(to) \o <<" ">> \o Outcome(h).v \o CRLF>>
RECURSIVE ExpectedReplies(_, _)
ExpectedReplies(cs, to) ==
    IF cs = <<>> THEN <<>>
    ELSE ExpectedReply(cs[1].h, to) \o ExpectedReplies(Tail(cs), to)

\* every generic handler was invoked exactly once, in registration order
AllGenericInvoked(e) ==
    GenericCalls(e) =
        [p \in 1..Len(on_privmsg) |-> [kind |-> "generic", pos |-> p, h |-> on_privmsg[p]]]

\* C1: for every list of registrations and every PRIVMSG whose messageBody
\* starts with the trigger character and whose trigger word is the name of a
\* registered handler, that handler is invoked, whatever its position in the
\* list, and no handler registered under another name is invoked.
C1_DispatchScansWholeList ==
    \A e \in Entries :
        IsBangCommand(e.msg) /\ Matching(WordOf(e.msg.message.v)) # {} =>
            /\ \E k \in 1..Len(e.called) :
                  /\ e.called[k].kind = "bang"
                  /\ e.called[k].pos = FirstMatching(WordOf(e.msg.message.v))
            /\ \A k \in 1..Len(e.called) :
                  e.called[k].kind = "bang" =>
                      functions[e.called[k].pos].name = WordOf(e.msg.message.v)

\* C2: at most one bang-command handler fires per PRIVMSG: of several
\* registrations with the trigger word's name only the first is invoked, and
\* at most one bang-command reply is sent for the message.
C2_AtMostOneBangHandler ==
    \A e \in Entries :
        /\ Len(BangCalls(e)) <= 1
        /\ Len(BangCalls(e)) = 1 =>
              BangCalls(e)[1].pos = FirstMatching(WordOf(e.msg.message.v))
        /\ Len(ExpectedReplies(BangCalls(e), e.to)) <= 1

\* C3: when a bang-command handler or a generic handler fails while handling
\* a PRIVMSG, the failure's description is sent as a PRIVMSG to the computed
\* reply target (each invocation's reply in the order of the invocations),
\* every generic handler of that message is still invoked, and the run is not
\* aborted: the loop goes on to the next message of the read.
C3_HandlerFailureIsolated ==
    \A k \in 1..Len(runLog) :
        LET e == runLog[k]
        IN  (\E j \in 1..Len(e.called) : Outcome(e.called[j].h).kind = "raise") =>
                /\ e.sends = ExpectedReplies(e.called, e.to)
                /\ \A j \in 1..Len(e.called) :
                      Outcome(e.called[j].h).kind = "raise" =>
                          \E n \in 1..Len(e.sends) :
                              /\ e.sends[n] = W_PRIVMSG \o <<" ">> \o Fmt(e.to) \o <<" ">>
                                                \o Outcome(e.called[j].h).v \o CRLF
                              /\ sent[e.at + n] = e.sends[n]
                /\ AllGenericInvoked(e)
                /\ e.exc = ""
                /\ k = Len(runLog) => pc # "crashed"
                /\ k < Len(messages) => Len(runLog) > k \/ (pc = "dispatch" /\ i = k + 1)

\* a failing bang handler and a failing generic handler were both invoked for
\* the first message, a later generic handler replied, and the second message
\* of the read was dispatched
C3_Witness ==
    /\ Len(runLog) = 2
    /\ \E j \in 1..Len(runLog[1].called) :
          runLog[1].called[j].kind = "bang" /\ runLog[1].called[j].h = "h2"
    /\ on_privmsg = <<"h2">>
    /\ Len(runLog[1].sends) = 2
    /\ runLog[2].sends # <<>>

\* C4: every message whose command is PRIVMSG invokes each registered
\* generic handler exactly once, and each string a generic handler returns
\* is sent as a PRIVMSG to the reply target.
C4_EveryPrivmsgRunsGenericHandlers ==
    \A e \in Entries :
        e.msg.command = Some(W_PRIVMSG) =>
            /\ AllGenericInvoked(e)
            /\ \A k \in 1..Len(e.called) :
                  e.called[k].kind = "generic" /\ Outcome(e.called[k].h).kind = "return" =>
                      \E n \in 1..Len(e.sends) :
                          e.sends[n] = W_PRIVMSG \o <<" ">> \o Fmt(e.to) \o <<" ">>
                                          \o Outcome(e.called[k].h).v \o CRLF

\* C5: a dispatched message with command PING and middle parameter p makes
\* exactly one send, the next one on the connection, and it is "PONG p\r\n";
\* no handler is invoked for it.
C5_PingAnsweredByPong ==
    \A e \in Entries :
        e.msg.command = Some(W_PING) /\ e.msg.middle.present =>
            /\ Len(e.sends) = 1
            /\ Len(sent) > e.at
            /\ sent[e.at + 1] = W_PONG \o <<" ">> \o e.msg.middle.v \o CRLF
            /\ e.called = <<>>
            /\ e.exc = ""

\* "PING :abc" was dispatched and "PONG :abc\r\n" is what was sent
C5_Witness ==
    /\ lines = <<L_ping>>
    /\ Len(runLog) = 1
    /\ functions # <<>>
    /\ on_privmsg # <<>>
    /\ sent = << <<"P", "O", "N", "G", " ", ":", "a", "b", "c", "\r", "\n">> >>

\* C6: a dispatched message with command 001 makes exactly one send, the
\* next one on the connection, and it is "JOIN <channel>\r\n".
C6_WelcomeAnsweredByJoin ==
    \A e \in Entries :
        e.msg.command = Some(W_001) =>
            /\ Len(e.sends) = 1
            /\ Len(sent) > e.at
            /\ sent[e.at + 1] = W_JOIN \o <<" ">> \o Channel \o CRLF
            /\ e.called = <<>>
            /\ e.exc = ""

\* ":s 001 n :w" was dispatched after another message that sent something,
\* and the next string sent is "JOIN #c\r\n"
C6_Witness ==
    /\ Len(runLog) = 2
    /\ lines[2] = L_welcome
    /\ runLog[2].at >= 1
    /\ sent[runLog[2].at + 1] = <<"J", "O", "I", "N", " ", "#", "c", "\r", "\n">>

\* the peer sent CRLF-terminated lines only (no line of the inputs holds a
\* CR or an LF)
SrcWellFormed ==
    /\ src.tail = <<>>
    /\ \A k \in 1..Len(src.lines) : src.lines[k].term = CRLF
SrcLines == [k \in 1..Len(src.lines) |-> src.lines[k].line]
RECURSIVE WireLen(_)
WireLen(ls) == IF ls = <<>> THEN 0 ELSE Len(ls[1]) + 2 + WireLen(Tail(ls))
\* the bytes the reads that have returned took from the connection
Consumed ==
    (Len(Encode(src.lines)) + Len(src.tail))
      - (Len(wire) + Len(rx) + (IF pc = "reading" THEN Len(buf.v) ELSE 0))

\* C7: for a stream of CRLF-terminated lines, however the transport chunks
\* it, the lines of the successive reads, in order, are the lines sent: at
\* every moment they are the first lines of the stream, and they are exactly
\* the lines held by the bytes the reads have taken (none lost, duplicated,
\* split or merged).
C7_ReassemblyIndependentOfChunking ==
    SrcWellFormed =>
        /\ Len(got) <= Len(SrcLines)
        /\ got = SubSeq(SrcLines, 1, Len(got))
        /\ Consumed = WireLen(got)
        /\ pc # "reading" /\ Len(lines) <= Len(got) =>
              lines = SubSeq(got, Len(got) - Len(lines) + 1, Len(got))

\* the first recv of the read returned "PRIVMSG #a :hi\r", a later one the
\* "\n", and the read gave the one line "PRIVMSG #a :hi"
C7_Witness ==
    /\ src.lines = WithCRLF(<<L_example>>)
    /\ firstLen = Len(L_example) + 1
    /\ pc # "reading"
    /\ lines = <<L_example>>
    /\ got = <<L_example>>

\* C8: when the first recv of a read returns zero bytes, _read_buffer
\* reports end-of-stream (None, not an empty buffer), the read yields no
\* lines and no messages, and the run dispatches nothing: no handler is
\* invoked and nothing is sent.
C8_EndOfStreamYieldsNothing ==
    firstLen = 0 =>
        /\ buf = None
        /\ lines = <<>>
        /\ messages = <<>>
        /\ runLog = <<>>
        /\ pc = "idle"
        /\ exc = ""

\* a run received lines and sent a reply, the peer closed, and the next
\* run's first recv returned zero bytes
C8_Witness ==
    /\ firstLen = 0
    /\ closed
    /\ got # <<>>
    /\ sent # <<>>
    /\ on_privmsg # <<>>

AllAbsent(m) ==
    /\ ~m.prefix.present
    /\ ~m.nickname.present
    /\ ~m.command.present
    /\ ~m.middle.present
    /\ ~m.trailing.present
    /\ ~m.message.present

\* C9: a line with fewer than two space-separated tokens (a line without a
\* space) parses, without raising, to a Message whose fields are all absent,
\* and the dispatch of such a Message invokes no handler and sends nothing.
C9_SingleTokenLineIsIgnored ==
    \A k \in 1..Len(lines) :
        ~(\E j \in 1..Len(lines[k]) : lines[k][j] = " ") =>
            /\ ~IRC_Message(lines[k]).raised
            /\ AllAbsent(IRC_Message(lines[k]))
            /\ pc = "idle" /\ exc = "" => Len(messages) = Len(lines) /\ AllAbsent(messages[k])
            /\ k <= Len(runLog) =>
                  /\ AllAbsent(runLog[k].msg)
                  /\ runLog[k].called = <<>>
                  /\ runLog[k].sends = <<>>
                  /\ runLog[k].exc = ""

\* "NOOP" was parsed and dispatched by a bot with handlers of both kinds
C9_Witness ==
    /\ lines = <<L_noop>>
    /\ Len(runLog) = 1
    /\ functions # <<>>
    /\ on_privmsg # <<>>
    /\ pc = "idle"
    /\ sent = <<>>

\* C10: for every line of two or more tokens the parser yields a Message in
\* which prefix is present exactly when the first token begins with ":" and
\* is then the first token; command is the second token when prefix is
\* present and the first token otherwise; nickname is present exactly when
\* prefix is present and contains "!", and is then the text of prefix
\* between the leading ":" and the first "!".
C10_PrefixCommandNickname ==
    \A k \in 1..Len(lines) :
        LET l == lines[k]
            w == Split(l, " ")
            m == IRC_Message(l)
            colon == w[1] # <<>> /\ w[1][1] = ":"
            bang == \E j \in 1..Len(w[1]) : w[1][j] = "!"
        IN  Len(w) >= 2 =>
                /\ ~m.raised
                /\ m.prefix.present <=> colon
                /\ colon => m.prefix.v = w[1] /\ m.command = Some(w[2])
                /\ ~colon => m.command = Some(w[1])
                /\ m.nickname.present <=> (colon /\ bang)
                /\ colon /\ bang =>
                      \E j \in 2..Len(w[1]) :
                          /\ w[1][j] = "!"
                          /\ \A n \in 1..(j-1) : w[1][n] # "!"
                          /\ m.nickname.v = SubSeq(w[1], 2, j - 1)

(***************************************************************************)
(* Properties of the outbound side                                         *)
(***************************************************************************)
\* the concatenation of the strings ss
RECURSIVE Concat(_)
Concat(ss) == IF ss = <<>> THEN <<>> ELSE ss[1] \o Concat(Tail(ss))

\* C11: send(text) transmits all the encoded bytes of text, also when the
\* transport takes only part of them in one write: the bytes the transport
\* has taken are the bytes of every string handed to send, each byte in
\* order and exactly once.
C11_SendTransmitsEveryByte == tx = Concat(sent)

\* the string ends with the line terminator
EndsWithCRLF(s) == Len(s) >= 2 /\ s[Len(s) - 1] = CR /\ s[Len(s)] = LF

\* C12: every string a formatting helper (PONG, PRIVMSG, NICK, USER, JOIN)
\* passes to send ends with CRLF, so that the outbound stream is a sequence
\* of complete CRLF-terminated lines, one per command.
C12_EverySentStringEndsWithCRLF ==
    \A k \in 1..Len(sent) : EndsWithCRLF(sent[k])

(***************************************************************************)
(* Properties of the parser's parameters                                   *)
(***************************************************************************)
\* the position of the command among the tokens w of a line of two or more
\* tokens: the second token when the first begins with ":", else the first
CommandPos(w) == IF w[1] # <<>> /\ w[1][1] = ":" THEN 2 ELSE 1

\* the fields the positions of the tokens give
MiddleAt(w) ==
    IF Len(w) > CommandPos(w) THEN Some(w[CommandPos(w) + 1]) ELSE None
TrailingAt(w) ==
    IF Len(w) > CommandPos(w) + 1
    THEN Some(Join(SubSeq(w, CommandPos(w) + 2, Len(w)), " "))
    ELSE None

\* C13: for every line of two or more tokens, also one in which the text of
\* a token occurs more than once ("PING PING x", ":a :a b c", "PRIVMSG
\* PRIVMSG"), middle is the token at the position right after the command's
\* position, trailing is the tokens after middle's position rejoined with
\* single spaces, and messageBody is trailing without its first character.
C13_MiddleAndTrailingByPosition ==
    \A k \in 1..Len(lines) :
        LET w == Split(lines[k], " ")
            m == IRC_Message(lines[k])
        IN  Len(w) >= 2 /\ ~m.raised =>
                /\ m.middle = MiddleAt(w)
                /\ m.trailing = TrailingAt(w)
                /\ m.message = IF m.trailing.present
                               THEN Some(Drop1(m.trailing.v)) ELSE None

\* C14: parsing is total and non-fatal: for every decoded line, also one
\* with empty tokens (a leading space, consecutive spaces, a trailing
\* space), the parser returns a Message without raising, and the other
\* lines of the same read are still parsed and handed to the dispatch.
C14_ParsingIsTotal ==
    pc # "reading" =>
        /\ \A k \in 1..Len(lines) : ~IRC_Message(lines[k]).raised
        /\ Len(messages) = Len(lines)

(***************************************************************************)
(* Properties of the dispatch of a PRIVMSG                                 *)
(***************************************************************************)
\* a PRIVMSG whose middle or messageBody is absent or empty
MalformedPrivmsg(m) ==
    /\ m.command = Some(W_PRIVMSG)
    /\ \/ ~m.middle.present
       \/ m.middle.v = <<>>
       \/ ~m.message.present
       \/ m.message.v = <<>>

\* C15: a malformed PRIVMSG (middle absent or empty, or messageBody absent
\* or empty, as in ":n!u@h PRIVMSG", ":n!u@h PRIVMSG #chan" and
\* ":n!u@h PRIVMSG #chan :") makes the dispatch pass fail in no way and
\* draws no error reply, and the messages after it in the same read are
\* still dispatched.
C15_MalformedPrivmsgIsDropped ==
    /\ \A e \in Entries :
          MalformedPrivmsg(e.msg) => e.exc = "" /\ e.sends = <<>>
    /\ pc = "idle" /\ Len(runLog) > 0 => Len(runLog) = Len(messages)

(***************************************************************************)
(* Properties of the reader at the end of the stream                       *)
(***************************************************************************)
\* C16: a read terminates once the peer has delivered a line feed as the
\* last byte of a chunk or has closed the connection: when the peer closes
\* after a partial line, the recv that returns no byte ends the read (which
\* signals end-of-stream); the read's loop never goes on after such a recv.
C16_ReadEndsWhenPeerCloses == pc = "reading" => zeroRecvs = 0

\* a PRIVMSG whose middle and messageBody are present and not empty
WellFormedPrivmsg(m) == m.command = Some(W_PRIVMSG) /\ ~MalformedPrivmsg(m)

\* the reply target the message gives: its middle when that starts with
\* "#", the sender's nickname otherwise
TargetOf(m) == IF m.middle.v[1] = "#" THEN m.middle ELSE m.nickname

\* C17: for every dispatched PRIVMSG the reply target is the message's
\* middle when middle starts with "#" and the sender's nickname otherwise;
\* the target is always a present value taken from the message; every
\* reply (of a bang handler or a generic handler, a returned value or the
\* report of a failure) is sent as "PRIVMSG <target> <reply>" CRLF to that
\* target, the bang replies before the generic replies.
C17_RepliesGoToTheReplyTarget ==
    \A e \in Entries :
        WellFormedPrivmsg(e.msg) =>
            /\ e.to = TargetOf(e.msg)
            /\ e.to.present
            /\ e.called = BangCalls(e) \o GenericCalls(e)
            /\ e.sends = ExpectedReplies(e.called, e.to)
            /\ \A k \in 1..Len(e.sends) :
                  e.sends[k] = sent[e.at + k] /\
                  SubSeq(e.sends[k], 1, Len(W_PRIVMSG) + 1 + Len(e.to.v) + 1)
                      = W_PRIVMSG \o <<" ">> \o e.to.v \o <<" ">>

(***************************************************************************)
(* Properties of the session                                               *)
(***************************************************************************)
\* the string s is the command named by the word w
IsCommand(s, w) == SubSeq(s, 1, Len(w) + 1) = w \o <<" ">>

\* the positions in sent of the JOIN commands
Joins == {k \in 1..Len(sent) : IsCommand(sent[k], W_JOIN)}

\* C18: the session goes Disconnected, Connected (unregistered), Connected
\* (registered, awaiting the welcome), Joined, in whatever order connect,
\* register and run are called: register sends NICK and then USER; a JOIN
\* is sent only in reaction to a "001" received after NICK and USER have
\* been sent on the established connection, and in no other state (not
\* before the registration, not when the channel is joined already).
C18_JoinOnlyAfterRegistration ==
    /\ \A k \in 1..Len(sent) :
          IsCommand(sent[k], W_NICK) =>
              k < Len(sent) /\ IsCommand(sent[k + 1], W_USER)
    /\ \A k \in Joins :
          \E a \in 1..(k - 1) :
              IsCommand(sent[a], W_NICK) /\ IsCommand(sent[a + 1], W_USER)
    /\ Cardinality(Joins) <= 1

(***************************************************************************)
(* Properties of the rendering of a Message                                *)
(***************************************************************************)
\* C19: parsing and then rendering is a round trip: for every line of two
\* or more tokens, the parsed Message rendered (its present fields among
\* prefix, command, middle and trailing joined by single spaces) is the
\* original line, character for character, also when the text of a token
\* occurs more than once; for a line of fewer than two tokens the rendering
\* is the empty string.
C19_RenderingGivesBackTheLine ==
    \A k \in 1..Len(lines) :
        LET w == Split(lines[k], " ")
            m == IRC_Message(lines[k])
        IN  ~m.raised =>
                IRC_Message_str(m) = IF Len(w) >= 2 THEN lines[k] ELSE <<>>

(***************************************************************************)
(* Properties of the split of a read's buffer                              *)
(***************************************************************************)
\* C20: the element that read leaves out after splitting the buffer on the
\* line delimiter is always the empty string, so that no received text is
\* dropped: that holds for every buffer on which the accumulation stops,
\* whose last byte is LF, also when that LF is not preceded by CR.
C20_DiscardedElementIsEmpty ==
    pc # "reading" /\ buf.present => Discarded(buf.v) = <<>>

=============================================================================
